---- MODULE Spec2Model ----
(***************************************************************************)
(* A model of lib/local_state.py (class LocalState): the deployment        *)
(* metadata files kept under ~/.appscale, the operations that read and     *)
(* write them, the string-masking helpers and the retrying shell runner;   *)
(* and of appscale/tools/agents/azure_agent.py (class AzureAgent): the     *)
(* calls it makes into the Azure management API and the errors it raises.  *)
(*                                                                         *)
(* Text is modelled as sequences: a str is a sequence of one-character     *)
(* strings where its characters matter (secrets, masked strings), a JSON   *)
(* document is a sequence of tokens, a YAML document a sequence of         *)
(* key/value lines.  A file is a record [exists, data].                    *)
(***************************************************************************)
EXTENDS Integers, Sequences, FiniteSets, TLC

VARIABLES
  files,      \* files[keyname][kind]: the files under LOCAL_APPSCALE_PATH
  last,       \* the last completed LocalState call and its outcome
  generated,  \* history: what generate_secret_key last returned, per keyname
  written,    \* history: the role_info update_local_metadata last wrote
  writer,     \* position of an update_local_metadata call in progress
  phase,      \* history: per keyname, which of update_local_metadata and
              \* cleanup_appscale_files succeeded last, "never" if neither did
  sh,         \* the shell() call in progress: its locals and its outcome
  twin,       \* the same shell() call made with is_verbose negated, given the
              \* same attempt outcomes
  obs,        \* a call of a masking helper: its argument and what it returned
  az,         \* the Azure subscription, the parameters the caller of the agent
              \* holds, and the outcome of the last AzureAgent call
  kf          \* the SSH key files with their permission bits, the umask of the
              \* process and the write_key_file call in progress

storeVars == <<files, last, generated, written, writer, phase>>
shellVars == <<sh, twin>>
vars ==
  <<files, last, generated, written, writer, phase, sh, twin, obs, az, kf>>

----------------------------------------------------------------------------
(* Bounds and input domains *)

\* The longest node roster the AppController reports.
MaxNodes == 2

\* The largest retry budget a caller passes to shell(), the default aside.
MaxRetries == 3

\* The longest string handed to obscure_str.
MaxStrLen == 6

\* The keypair names of the deployments on this machine.
Keynames == {"dep1", "dep2"}

\* The role lists a node may advertise, and the roles asked for.
JobLists == {<<"db_master">>, <<"db_master", "login">>}
Roles == {"login", "db_master", "missing"}

\* Hex digits uuid.uuid4() is drawn from here (one digit fills the uuid).
UuidDigits == {"3", "e"}

\* options.infrastructure: unset, or a cloud's name.
NoValue == "None"
InfrastructureOptions == {NoValue, "ec2"}

----------------------------------------------------------------------------
(* Program constants *)

SECRET_KEY_LENGTH == 32

DEFAULT_NUM_RETRIES == 5

\* The files one keyname owns, by the suffix its path function appends.
Kinds == {"secret", "yaml", "json", "key_pem", "cert_pem"}

----------------------------------------------------------------------------
(* Files *)

NoFile == [exists |-> FALSE, data |-> <<>>]
FileOf(data) == [exists |-> TRUE, data |-> data]

get_secret_key_location(keyname) == <<keyname, "secret">>
get_private_key_location(keyname) == <<keyname, "key_pem">>
get_certificate_location(keyname) == <<keyname, "cert_pem">>
get_locations_yaml_location(keyname) == <<keyname, "yaml">>
get_locations_json_location(keyname) == <<keyname, "json">>

\* os.path.exists(path) and the content open(path, 'r').read() returns.
Exists(fs, path) == fs[path[1]][path[2]].exists
Contents(fs, path) == fs[path[1]][path[2]].data

\* with open(path, 'w') as f: f.write(data)  -- seen after the block.
WriteFile(fs, path, data) ==
  [fs EXCEPT ![path[1]][path[2]] = FileOf(data)]

\* os.remove(path) of an existing file.
RemoveFile(fs, path) ==
  [fs EXCEPT ![path[1]][path[2]] = NoFile]

----------------------------------------------------------------------------
(* Outcomes of a call *)

Result(op, keyname, status, value, flag, pre) ==
  [op |-> op, keyname |-> keyname, status |-> status, value |-> value,
   flag |-> flag, pre |-> pre]

NoCall == Result("none", "none", "ok", <<>>, FALSE, <<>>)

----------------------------------------------------------------------------
(* json.dumps / json.loads of a node roster, token by token *)

Punct(c) == [t |-> "punct", v |-> c]
Str(s) == [t |-> "str", v |-> s]

Range(seq) == {seq[i] : i \in DOMAIN seq}

RECURSIVE Concat(_)
Concat(seqs) ==
  IF seqs = <<>> THEN <<>> ELSE Head(seqs) \o Concat(Tail(seqs))

\* A node record written without its private address.
DumpsNodeNoPrivateIp(node) ==
  <<Punct("{"), Str("public_ip"), Str(node.public_ip),
    Str("jobs"), Punct("[")>>
  \o [i \in DOMAIN node.jobs |-> Str(node.jobs[i])]
  \o <<Punct("]"), Punct("}")>>

\* One node record as json.dumps writes it.
DumpsNode(node) ==
  <<Punct("{"), Str("public_ip"), Str(node.public_ip),
    Str("private_ip"), Str(node.private_ip),
    Str("jobs"), Punct("[")>>
  \o [i \in DOMAIN node.jobs |-> Str(node.jobs[i])]
  \o <<Punct("]"), Punct("}")>>

json_dumps(role_info) ==
  <<Punct("[")>>
  \o Concat([i \in DOMAIN role_info |-> DumpsNode(role_info[i])])
  \o <<Punct("]")>>

ParseFail == [ok |-> FALSE, val |-> <<>>, next |-> 0]
Parsed(val, next) == [ok |-> TRUE, val |-> val, next |-> next]

\* The strings of a list, from position i to its closing bracket.
RECURSIVE ParseStrs(_, _, _)
ParseStrs(toks, i, acc) ==
  IF i > Len(toks) THEN ParseFail
  ELSE IF toks[i] = Punct("]") THEN Parsed(acc, i + 1)
  ELSE IF toks[i].t = "str" THEN ParseStrs(toks, i + 1, Append(acc, toks[i].v))
  ELSE ParseFail

\* The key/value pairs of an object, from position i to its closing brace.
RECURSIVE ParsePairs(_, _, _)
ParsePairs(toks, i, acc) ==
  IF i > Len(toks) THEN ParseFail
  ELSE IF toks[i] = Punct("}") THEN Parsed(acc, i + 1)
  ELSE IF toks[i].t # "str" \/ i + 1 > Len(toks) THEN ParseFail
  ELSE IF toks[i + 1] = Punct("[")
    THEN LET r == ParseStrs(toks, i + 2, <<>>)
         IN IF r.ok THEN ParsePairs(toks, r.next, (toks[i].v :> r.val) @@ acc)
            ELSE ParseFail
  ELSE IF toks[i + 1].t = "str"
    THEN ParsePairs(toks, i + 2, (toks[i].v :> toks[i + 1].v) @@ acc)
  ELSE ParseFail

\* The objects of the top-level list, from position i to its closing bracket.
RECURSIVE ParseNodes(_, _, _)
ParseNodes(toks, i, acc) ==
  IF i > Len(toks) THEN ParseFail
  ELSE IF toks[i] = Punct("]") THEN Parsed(acc, i + 1)
  ELSE IF toks[i] = Punct("{")
    THEN LET r == ParsePairs(toks, i + 1, [k \in {} |-> <<>>])
         IN IF r.ok THEN ParseNodes(toks, r.next, Append(acc, r.val))
            ELSE ParseFail
  ELSE ParseFail

\* json.loads: the roster, or ValueError (ok = FALSE) on anything else.
json_loads(toks) ==
  IF Len(toks) = 0 \/ toks[1] # Punct("[") THEN ParseFail
  ELSE LET r == ParseNodes(toks, 2, <<>>)
       IN IF r.ok /\ r.next = Len(toks) + 1 THEN r ELSE ParseFail

----------------------------------------------------------------------------
(* yaml.dump(default_flow_style=False) / yaml.safe_load, line by line *)

\* yaml.dump writes a mapping's keys in sorted order, one per line.
YamlKeyOrder ==
  <<"db_master", "group", "infrastructure", "instance_id", "ips",
    "load_balancer", "secret", "table">>

yaml_dump(contents) ==
  LET keys == SelectSeq(YamlKeyOrder, LAMBDA k : k \in DOMAIN contents)
  IN [i \in DOMAIN keys |-> <<keys[i], contents[keys[i]]>>]

\* yaml.safe_load: None (ok = FALSE) for an empty document, else the mapping.
yaml_safe_load(lines) ==
  IF lines = <<>> THEN [ok |-> FALSE, val |-> <<>>]
  ELSE [ok |-> TRUE,
        val |-> [k \in {lines[i][1] : i \in DOMAIN lines} |->
                   lines[CHOOSE i \in DOMAIN lines : lines[i][1] = k][2]]]

----------------------------------------------------------------------------
(* Inputs of update_local_metadata *)

PublicIp(i) == "10.0.0." \o ToString(i)
PrivateIp(i) == "192.168.0." \o ToString(i)

\* What acc.get_role_info() may answer: up to MaxNodes node records.
RoleInfos ==
  UNION {{[i \in 1..n |-> [public_ip |-> PublicIp(i),
                            private_ip |-> PrivateIp(i),
                            jobs |-> jobs[i]]] : jobs \in [1..n -> JobLists]}
         : n \in 0..MaxNodes}

\* What acc.get_all_public_ips() answers for the same deployment.
AllPublicIps(role_info) == [i \in DOMAIN role_info |-> role_info[i].public_ip]

Host == "10.0.0.1"
InstanceId == "i-APPSCALE"
Table == "cassandra"
Group == "appscale-group"
DbMasterId == "node-1"

----------------------------------------------------------------------------
(* Initial state: an empty ~/.appscale, nothing called yet *)

\* No update_local_metadata call in progress.  During one: the text still to
\* be written to each file, what is left of the current file's text, and the
\* two files as they were when the call began.
Idle == [pc |-> "idle", keyname |-> "none", role_info |-> <<>>,
         yaml |-> <<>>, json |-> <<>>, left |-> <<>>,
         old |-> [yaml |-> NoFile, json |-> NoFile]]

StoreInit ==
  /\ files = [k \in Keynames |-> [kind \in Kinds |-> NoFile]]
  /\ last = NoCall
  /\ generated = [k \in Keynames |-> <<>>]
  /\ written = [k \in Keynames |-> [set |-> FALSE, role_info |-> <<>>]]
  /\ writer = Idle
  /\ phase = [k \in Keynames |-> "never"]

----------------------------------------------------------------------------
(* LocalState operations, one action per call *)

\* ensure_appscale_isnt_running without its "if force: return".
ensure_ignoring_force(keyname, force) ==
  /\ writer.pc = "idle"
  /\ last' = Result("ensure_appscale_isnt_running", keyname,
                    IF Exists(files, get_locations_yaml_location(keyname))
                    THEN "BadConfigurationException" ELSE "ok",
                    <<>>, force, <<>>)
  /\ UNCHANGED <<files, generated, written, writer, phase>>

\* lines 69-86
ensure_appscale_isnt_running(keyname, force) ==
  /\ writer.pc = "idle"
  /\ last' = Result("ensure_appscale_isnt_running", keyname,
                    IF force THEN "ok"
                    ELSE IF Exists(files, get_locations_yaml_location(keyname))
                      THEN "BadConfigurationException"
                    ELSE "ok",
                    <<>>, force, <<>>)
  /\ UNCHANGED <<files, generated, written, writer, phase>>

\* str(uuid.uuid4()): 8-4-4-4-12 hex digits, the version digit 4 in place.
uuid4_str(d) ==
  [i \in 1..36 |-> IF i \in {9, 14, 19, 24} THEN "-"
                   ELSE IF i = 15 THEN "4" ELSE d]

\* s.replace('-', '')
RemoveDashes(s) == SelectSeq(s, LAMBDA c : c # "-")

\* s[:n]
SliceTo(s, n) == SubSeq(s, 1, IF Len(s) < n THEN Len(s) ELSE n)

\* line 100
NewSecretKey(d) == SliceTo(RemoveDashes(uuid4_str(d)), SECRET_KEY_LENGTH)

\* lines 89-103
generate_secret_key(keyname) ==
  /\ writer.pc = "idle"
  /\ \E d \in UuidDigits :
       LET key == NewSecretKey(d)
       IN /\ files' = WriteFile(files, get_secret_key_location(keyname), key)
          /\ generated' = [generated EXCEPT ![keyname] = key]
          /\ last' = Result("generate_secret_key", keyname, "ok", key,
                            FALSE, <<>>)
  /\ UNCHANGED <<written, writer, phase>>

\* A read that loses the file's last character.
ReadSecretKeyShort(fs, keyname) ==
  IF Exists(fs, get_secret_key_location(keyname))
  THEN LET data == Contents(fs, get_secret_key_location(keyname))
       IN [status |-> "ok", value |-> SubSeq(data, 1, Len(data) - 1)]
  ELSE [status |-> "IOError", value |-> <<>>]

\* A read that answers the empty string for an absent file.
ReadSecretKeyOrEmpty(fs, keyname) ==
  [status |-> "ok",
   value |-> IF Exists(fs, get_secret_key_location(keyname))
             THEN Contents(fs, get_secret_key_location(keyname)) ELSE <<>>]

\* lines 131-132: the file's content, or IOError when it is absent.
ReadSecretKey(fs, keyname) ==
  IF Exists(fs, get_secret_key_location(keyname))
  THEN [status |-> "ok", value |-> Contents(fs, get_secret_key_location(keyname))]
  ELSE [status |-> "IOError", value |-> <<>>]

\* lines 121-132
get_secret_key(keyname) ==
  /\ writer.pc = "idle"
  /\ LET r == ReadSecretKey(files, keyname)
     IN last' = Result("get_secret_key", keyname, r.status, r.value,
                       FALSE, <<>>)
  /\ UNCHANGED <<files, generated, written, writer, phase>>

\* lines 235-273: the key and the certificate, each saved to its own file.
generate_ssl_cert(keyname) ==
  /\ writer.pc = "idle"
  /\ files' = WriteFile(
                WriteFile(files, get_private_key_location(keyname),
                          <<"RSA PRIVATE KEY">>),
                get_certificate_location(keyname), <<"CERTIFICATE">>)
  /\ last' = Result("generate_ssl_cert", keyname, "ok", <<>>, FALSE, <<>>)
  /\ UNCHANGED <<generated, written, writer, phase>>

\* A locations record written with an empty secret.
YamlContentsNoSecret(secret, infrastructure, role_info) ==
  [load_balancer |-> Host,
   instance_id |-> InstanceId,
   table |-> Table,
   secret |-> <<>>,
   db_master |-> DbMasterId,
   ips |-> AllPublicIps(role_info),
   infrastructure |-> IF infrastructure = NoValue THEN "xen" ELSE infrastructure,
   group |-> Group]

\* lines 367-379: the mapping written to locations-<keyname>.yaml.
YamlContents(secret, infrastructure, role_info) ==
  [load_balancer |-> Host,
   instance_id |-> InstanceId,
   table |-> Table,
   secret |-> secret,
   db_master |-> DbMasterId,
   ips |-> AllPublicIps(role_info),
   infrastructure |-> IF infrastructure = NoValue THEN "xen" ELSE infrastructure,
   group |-> Group]

\* lines 348-385, run to completion by the one operator process: the secret
\* is read first (IOError when absent, nothing written), then the yaml file
\* and the json file are written.
update_local_metadata(keyname, infrastructure, role_info) ==
  /\ writer.pc = "idle"
  /\ LET secret == ReadSecretKey(files, keyname)
     IN IF secret.status # "ok"
        THEN /\ last' = Result("update_local_metadata", keyname, secret.status,
                               <<>>, FALSE, <<>>)
             /\ UNCHANGED <<files, written, phase>>
        ELSE /\ files' =
                  WriteFile(
                    WriteFile(files, get_locations_yaml_location(keyname),
                              yaml_dump(YamlContents(secret.value,
                                                     infrastructure, role_info))),
                    get_locations_json_location(keyname),
                    json_dumps(role_info))
             /\ written' = [written EXCEPT ![keyname] =
                              [set |-> TRUE, role_info |-> role_info]]
             /\ phase' = [phase EXCEPT ![keyname] = "updated"]
             /\ last' = Result("update_local_metadata", keyname, "ok",
                               <<>>, FALSE, <<>>)
  /\ UNCHANGED <<generated, writer>>

\* lines 400-401: IOError when the file is absent, ValueError when json.loads
\* rejects its content, else the roster.
ReadNodesInfo(fs, keyname) ==
  IF ~Exists(fs, get_locations_json_location(keyname))
  THEN [status |-> "IOError", value |-> <<>>]
  ELSE LET r == json_loads(Contents(fs, get_locations_json_location(keyname)))
       IN IF r.ok THEN [status |-> "ok", value |-> r.val]
          ELSE [status |-> "ValueError", value |-> <<>>]

\* lines 388-401
get_local_nodes_info(keyname) ==
  /\ LET r == ReadNodesInfo(files, keyname)
     IN last' = Result("get_local_nodes_info", keyname, r.status, r.value,
                       writer.pc # "idle" /\ writer.keyname = keyname, <<>>)
  /\ UNCHANGED <<files, generated, written, writer, phase>>

\* A scan that keeps going and answers the last node holding the role.
ScanForRoleLast(nodes, i, role) ==
  LET hits == {n \in i..Len(nodes) : role \in Range(nodes[n]["jobs"])}
  IN IF hits = {} THEN [status |-> "AppScaleException", value |-> <<>>]
     ELSE [status |-> "ok",
           value |-> nodes[CHOOSE n \in hits : \A m \in hits : m <= n]["public_ip"]]

\* lines 452-455: the loop over the nodes from index i on, then the raise.
RECURSIVE ScanForRole(_, _, _)
ScanForRole(nodes, i, role) ==
  IF i > Len(nodes) THEN [status |-> "AppScaleException", value |-> <<>>]
  ELSE IF "jobs" \notin DOMAIN nodes[i] THEN [status |-> "KeyError", value |-> <<>>]
  ELSE IF role \in Range(nodes[i]["jobs"])
    THEN IF "public_ip" \in DOMAIN nodes[i]
         THEN [status |-> "ok", value |-> nodes[i]["public_ip"]]
         ELSE [status |-> "KeyError", value |-> <<>>]
  ELSE ScanForRole(nodes, i + 1, role)

\* lines 451-455: what get_host_with_role answers on the files fs.
HostWithRole(fs, keyname, role) ==
  LET nodes == ReadNodesInfo(fs, keyname)
  IN IF nodes.status = "ok" THEN ScanForRole(nodes.value, 1, role)
     ELSE [status |-> nodes.status, value |-> <<>>]

\* lines 439-455
get_host_with_role(keyname, role) ==
  /\ writer.pc = "idle"
  /\ LET r == HostWithRole(files, keyname, role)
     IN last' = Result("get_host_with_role", keyname, r.status, r.value,
                       FALSE, role)
  /\ UNCHANGED <<files, generated, written, writer, phase>>

\* lines 406-408: the loop over the nodes from index i on; past the last node
\* the function body ends, and a call that ends so evaluates to None.
RECURSIVE ScanForRoleOrNone(_, _, _)
ScanForRoleOrNone(nodes, i, role) ==
  IF i > Len(nodes) THEN [status |-> "ok", value |-> NoValue]
  ELSE IF "jobs" \notin DOMAIN nodes[i] THEN [status |-> "KeyError", value |-> <<>>]
  ELSE IF role \in Range(nodes[i]["jobs"])
    THEN IF "public_ip" \in DOMAIN nodes[i]
         THEN [status |-> "ok", value |-> nodes[i]["public_ip"]]
         ELSE [status |-> "KeyError", value |-> <<>>]
  ELSE ScanForRoleOrNone(nodes, i + 1, role)

\* lines 405-408: what get_host_for_role answers on the files fs.
HostForRole(fs, keyname, role) ==
  LET nodes == ReadNodesInfo(fs, keyname)
  IN IF nodes.status = "ok" THEN ScanForRoleOrNone(nodes.value, 1, role)
     ELSE [status |-> nodes.status, value |-> <<>>]

\* lines 404-408
get_host_for_role(keyname, role) ==
  /\ writer.pc = "idle"
  /\ LET r == HostForRole(files, keyname, role)
     IN last' = Result("get_host_for_role", keyname, r.status, r.value,
                       FALSE, role)
  /\ UNCHANGED <<files, generated, written, writer, phase>>

\* lines 551-552 and 566-567: yaml.safe_load(...)[field].
ReadYamlField(fs, keyname, field) ==
  IF ~Exists(fs, get_locations_yaml_location(keyname))
  THEN [status |-> "IOError", value |-> <<>>]
  ELSE LET r == yaml_safe_load(Contents(fs, get_locations_yaml_location(keyname)))
       IN IF ~r.ok THEN [status |-> "TypeError", value |-> <<>>]
          ELSE IF field \notin DOMAIN r.val
            THEN [status |-> "KeyError", value |-> <<>>]
          ELSE [status |-> "ok", value |-> r.val[field]]

\* lines 539-552
get_infrastructure(keyname) ==
  /\ LET r == ReadYamlField(files, keyname, "infrastructure")
     IN last' = Result("get_infrastructure", keyname, r.status, r.value,
                       writer.pc # "idle" /\ writer.keyname = keyname, <<>>)
  /\ UNCHANGED <<files, generated, written, writer, phase>>

\* lines 555-567
get_group(keyname) ==
  /\ LET r == ReadYamlField(files, keyname, "group")
     IN last' = Result("get_group", keyname, r.status, r.value,
                       writer.pc # "idle" /\ writer.keyname = keyname, <<>>)
  /\ UNCHANGED <<files, generated, written, writer, phase>>

\* Removal that skips the files that are absent.
RemoveAllIgnoringMissing(fs, paths) ==
  LET RECURSIVE Go(_, _)
      Go(cur, i) ==
        IF i > Len(paths) THEN [files |-> cur, status |-> "ok"]
        ELSE IF ~Exists(cur, paths[i]) THEN Go(cur, i + 1)
        ELSE Go(RemoveFile(cur, paths[i]), i + 1)
  IN Go(fs, 1)

\* Removal that reports success and leaves the first file in place.
RemoveAllButFirst(fs, paths) ==
  LET RECURSIVE Go(_, _)
      Go(cur, i) ==
        IF i > Len(paths) THEN [files |-> cur, status |-> "ok"]
        ELSE IF ~Exists(cur, paths[i]) THEN [files |-> cur, status |-> "OSError"]
        ELSE Go(IF i = 1 THEN cur ELSE RemoveFile(cur, paths[i]), i + 1)
  IN Go(fs, 1)

\* lines 578-580: three os.remove calls in order; the first one whose file is
\* absent raises OSError and the calls after it never run.
RemoveAll(fs, paths) ==
  LET RECURSIVE Go(_, _)
      Go(cur, i) ==
        IF i > Len(paths) THEN [files |-> cur, status |-> "ok"]
        ELSE IF ~Exists(cur, paths[i]) THEN [files |-> cur, status |-> "OSError"]
        ELSE Go(RemoveFile(cur, paths[i]), i + 1)
  IN Go(fs, 1)

CleanupPaths(keyname) ==
  <<get_locations_yaml_location(keyname),
    get_locations_json_location(keyname),
    get_secret_key_location(keyname)>>

\* Which of the three files exist.
Present(fs, keyname) ==
  [i \in 1..3 |-> Exists(fs, CleanupPaths(keyname)[i])]

\* lines 570-580: the three removals and what they leave behind.
CleanupCall(keyname) ==
  LET r == RemoveAll(files, CleanupPaths(keyname))
  IN /\ files' = r.files
     /\ last' = Result("cleanup_appscale_files", keyname, r.status, <<>>,
                       last.op = "cleanup_appscale_files"
                         /\ last.keyname = keyname /\ last.status = "ok",
                       Present(files, keyname))
     /\ generated' =
          IF Exists(r.files, get_secret_key_location(keyname))
          THEN generated ELSE [generated EXCEPT ![keyname] = <<>>]
     /\ written' =
          IF Exists(r.files, get_locations_json_location(keyname))
          THEN written
          ELSE [written EXCEPT ![keyname] =
                  [set |-> FALSE, role_info |-> <<>>]]
     /\ phase' = IF r.status = "ok"
                  THEN [phase EXCEPT ![keyname] = "cleaned"] ELSE phase

\* lines 570-580, called by the operator process between its other calls.
cleanup_appscale_files(keyname) ==
  /\ writer.pc = "idle"
  /\ CleanupCall(keyname)
  /\ UNCHANGED writer

----------------------------------------------------------------------------
(* shell(): lines 583-613.  The names tempfile, subprocess, sys and        *)
(* ShellException, which the file uses without importing them, stand for   *)
(* the library modules and the exception they name.                        *)

\* The commands run, what one attempt may print, and the budgets passed.
Commands == {"scp", "ssh"}
Outputs == {<<>>, <<"o">>, <<"o", "k">>}
RetryBudgets == (-1..MaxRetries) \cup {DEFAULT_NUM_RETRIES}

\* A run whose budget never reaches zero is followed this far.
AttemptCap == DEFAULT_NUM_RETRIES + MaxRetries

NoTempFile == [data |-> <<>>, pos |-> 0]

ShIdle ==
  [pc |-> "Idle", command |-> "none", is_verbose |-> FALSE, num_retries |-> 0,
   tries_left |-> 0, exits |-> <<>>, stdout |-> <<>>, tmp |-> NoTempFile,
   logged |-> 0, status |-> "none", value |-> <<>>, open |-> 0]

\* AppScaleLogger.verbose(msg, is_verbose): one more line when verbose.
Logged(n, is_verbose) == IF is_verbose THEN n + 1 ELSE n

\* line 598: a call binds its arguments and enters the loop.
shell_call(command, is_verbose, num_retries) ==
  /\ sh.pc \in {"Idle", "Success", "Exhausted"}
  /\ sh' = [ShIdle EXCEPT !.pc = "Loop", !.command = command,
                          !.is_verbose = is_verbose,
                          !.num_retries = num_retries,
                          !.tries_left = num_retries]
  /\ UNCHANGED <<storeVars, obs, az, kf>>

\* A loop that stops one try early.
LoopConditionOffByOne(tries_left) == tries_left > 1

\* line 599: "while tries_left" is true of every integer but 0.
LoopCondition(tries_left) == tries_left # 0

\* lines 600-604: log, open a temporary file, start the command with the file
\* as its stdout and wait for it.  The child writes through the descriptor it
\* shares with the parent, so the file's position ends after what it wrote.
\* open counts the run's temporary files that are open.  Line 601 opens a new
\* one and binds the_temp_file to it; the files of earlier attempts are
\* closed by no statement, only by the runtime when it reclaims the file
\* objects, which may be at the rebinding or later: kept of them stay open.
shell_attempt ==
  /\ sh.pc = "Loop"
  /\ LoopCondition(sh.tries_left)
  /\ Len(sh.exits) < AttemptCap
  /\ \E returncode \in {0, 1}, out \in Outputs, kept \in 0..sh.open :
       sh' = [sh EXCEPT !.pc = "Running",
                        !.logged = Logged(@, sh.is_verbose),
                        !.exits = Append(@, returncode),
                        !.stdout = out,
                        !.tmp = [data |-> out, pos |-> Len(out)],
                        !.open = kept + 1]
  /\ UNCHANGED <<storeVars, obs, az, kf>>

\* the_temp_file.read(): what lies between the file's position and its end.
ReadTempFile(tmp) == SubSeq(tmp.data, tmp.pos + 1, Len(tmp.data))

\* lines 605-608: exit code 0, so read the file, close it and return.  Line
\* 607 closes the file of this attempt, and no other.
shell_return ==
  /\ sh.pc = "Running"
  /\ sh.exits[Len(sh.exits)] = 0
  /\ sh' = [sh EXCEPT !.pc = "Success", !.status = "ok",
                      !.value = ReadTempFile(sh.tmp),
                      !.tmp = NoTempFile,
                      !.open = @ - 1]
  /\ UNCHANGED <<storeVars, obs, az, kf>>

\* lines 609-612: a nonzero exit code, so log, count the try and sleep.
shell_retry ==
  /\ sh.pc = "Running"
  /\ sh.exits[Len(sh.exits)] # 0
  /\ sh' = [sh EXCEPT !.pc = "Loop",
                      !.logged = Logged(@, sh.is_verbose),
                      !.tries_left = @ - 1]
  /\ UNCHANGED <<storeVars, obs, az, kf>>

\* line 613: the loop is left, so raise with the command in the message.
\* Nothing is closed: the_temp_file still names the file of the last attempt.
shell_raise ==
  /\ sh.pc = "Loop"
  /\ ~LoopCondition(sh.tries_left)
  /\ sh' = [sh EXCEPT !.pc = "Exhausted", !.status = "ShellException",
                      !.value = sh.command, !.tmp = NoTempFile]
  /\ UNCHANGED <<storeVars, obs, az, kf>>

\* A run that gives up after its first failed attempt when it is verbose.
shell_step_verbose_gives_up(run, returncode, out) ==
  IF run.pc = "Loop"
  THEN IF LoopCondition(run.tries_left)
       THEN [run EXCEPT !.pc = "Running",
                        !.logged = Logged(@, run.is_verbose),
                        !.exits = Append(@, returncode),
                        !.stdout = out,
                        !.tmp = [data |-> out, pos |-> Len(out)]]
       ELSE [run EXCEPT !.pc = "Exhausted", !.status = "ShellException",
                        !.value = run.command, !.tmp = NoTempFile]
  ELSE IF run.pc = "Running"
  THEN IF run.exits[Len(run.exits)] = 0
       THEN [run EXCEPT !.pc = "Success", !.status = "ok",
                        !.value = ReadTempFile(run.tmp), !.tmp = NoTempFile]
       ELSE [run EXCEPT !.pc = "Loop",
                        !.logged = Logged(@, run.is_verbose),
                        !.tries_left = IF run.is_verbose THEN 0 ELSE @ - 1]
  ELSE run

\* lines 598-613 as a function of the run so far: the statements the run
\* executes next, where the attempt, if this step is one, exits with
\* returncode after printing out.  A run that has returned or raised stays.
\* The count of open files is not followed here.
shell_step(run, returncode, out) ==
  IF run.pc = "Loop"
  THEN IF LoopCondition(run.tries_left)
       THEN [run EXCEPT !.pc = "Running",
                        !.logged = Logged(@, run.is_verbose),
                        !.exits = Append(@, returncode),
                        !.stdout = out,
                        !.tmp = [data |-> out, pos |-> Len(out)]]
       ELSE [run EXCEPT !.pc = "Exhausted", !.status = "ShellException",
                        !.value = run.command, !.tmp = NoTempFile]
  ELSE IF run.pc = "Running"
  THEN IF run.exits[Len(run.exits)] = 0
       THEN [run EXCEPT !.pc = "Success", !.status = "ok",
                        !.value = ReadTempFile(run.tmp), !.tmp = NoTempFile]
       ELSE [run EXCEPT !.pc = "Loop",
                        !.logged = Logged(@, run.is_verbose),
                        !.tries_left = @ - 1]
  ELSE run

\* The exit code of a run's latest attempt (0 before its first).
LastExit(run) ==
  IF run.exits = <<>> THEN 0 ELSE run.exits[Len(run.exits)]

\* The twin is called with the arguments of the call just made, is_verbose
\* negated.
twin_call ==
  twin' = [ShIdle EXCEPT !.pc = "Loop", !.command = sh'.command,
                         !.is_verbose = ~sh'.is_verbose,
                         !.num_retries = sh'.num_retries,
                         !.tries_left = sh'.num_retries]

\* The twin executes its own next statements; an attempt of it has the
\* outcome of the run's latest attempt.
twin_step ==
  twin' = shell_step(twin, LastExit(sh'), sh'.stdout)

----------------------------------------------------------------------------
(* obscure_str: lines 218-232 *)

\* The characters of the strings obscured.
Chars == {"A", "1"}

Strings == UNION {[1..n -> Chars] : n \in 0..MaxStrLen}

NoObscure == [input |-> <<>>, output |-> <<>>, done |-> FALSE]

\* "*" * n
Stars(n) == [i \in 1..n |-> "*"]

\* A mask that leaves only three characters readable.
obscure_str_last_three(str_to_obscure) ==
  IF Len(str_to_obscure) < 4 THEN str_to_obscure
  ELSE Stars(Len(str_to_obscure) - 3)
       \o SubSeq(str_to_obscure, Len(str_to_obscure) - 3 + 1, Len(str_to_obscure))

\* lines 229-232; s[a:b] is SubSeq(s, a + 1, b).
obscure_str(str_to_obscure) ==
  IF Len(str_to_obscure) < 4 THEN str_to_obscure
  ELSE LET last_four == SubSeq(str_to_obscure, Len(str_to_obscure) - 4 + 1,
                               Len(str_to_obscure))
       IN Stars(Len(str_to_obscure) - 4) \o last_four

\* One call of obscure_str on the string drawn at the start.
obscure_str_call ==
  /\ ~obs.done
  /\ obs' = [obs EXCEPT !.output = obscure_str(obs.input), !.done = TRUE]
  /\ UNCHANGED <<storeVars, shellVars, az, kf>>

----------------------------------------------------------------------------
(* obscure_dict: lines 195-215 *)

\* The keys of the dictionaries obscured, character by character.
DictKeys ==
  {<<"E", "C", "2", "_", "K", "E", "Y">>,
   <<"e", "c", "2", "_", "u", "r", "l">>,
   <<"C", "L", "O", "U", "D">>,
   <<"e", "m", "a", "i", "l">>,
   <<"k", "e", "y", "n", "a", "m", "e">>}

\* Their values: one of fewer than four characters and one of MaxStrLen.
DictValues ==
  {[i \in 1..n |-> IF i % 2 = 1 THEN "A" ELSE "1"] : n \in {3, MaxStrLen}}

Dicts == UNION {[keys -> DictValues] : keys \in SUBSET DictKeys}

\* lines 208 and 210: re.compile('[EC2]|[ec2]').match(key) succeeds when the
\* first character of key is in one of the two character classes.
obscure_regex_match(key) ==
  /\ Len(key) >= 1
  /\ \/ key[1] \in {"E", "C", "2"}
     \/ key[1] \in {"e", "c", "2"}

\* lines 207-215: a new dictionary, filled key by key.
obscure_dict(dict_to_obscure) ==
  [key \in DOMAIN dict_to_obscure |->
     IF obscure_regex_match(key) THEN obscure_str(dict_to_obscure[key])
     ELSE dict_to_obscure[key]]

\* One call of obscure_dict on the dictionary drawn at the start; the
\* argument is only read.
obscure_dict_call ==
  /\ ~obs.done
  /\ obs' = [obs EXCEPT !.output = obscure_dict(obs.input), !.done = TRUE]
  /\ UNCHANGED <<storeVars, shellVars, az, kf>>

----------------------------------------------------------------------------
(* update_local_metadata, lines 348-385, one file operation at a time, as a *)
(* second process reading the files sees it                                 *)

\* lines 363-379: the secret is read and the two texts are prepared.
update_begin(keyname, infrastructure, role_info) ==
  /\ writer.pc = "idle"
  /\ LET secret == ReadSecretKey(files, keyname)
     IN IF secret.status # "ok"
        THEN /\ last' = Result("update_local_metadata", keyname, secret.status,
                               <<>>, FALSE, <<>>)
             /\ UNCHANGED writer
        ELSE /\ writer' =
                  [pc |-> "open_yaml", keyname |-> keyname,
                   role_info |-> role_info,
                   yaml |-> yaml_dump(YamlContents(secret.value,
                                                   infrastructure, role_info)),
                   json |-> json_dumps(role_info),
                   left |-> <<>>,
                   old |-> [yaml |-> files[keyname]["yaml"],
                            json |-> files[keyname]["json"]]]
             /\ UNCHANGED last
  /\ UNCHANGED <<files, generated, written, phase, shellVars, obs, az, kf>>

\* The file an update in progress is at.
WriterPath ==
  IF writer.pc \in {"open_yaml", "write_yaml"}
  THEN get_locations_yaml_location(writer.keyname)
  ELSE get_locations_json_location(writer.keyname)

\* lines 380 and 384: open(path, 'w') creates the file or truncates it.
update_open ==
  /\ writer.pc \in {"open_yaml", "open_json"}
  /\ files' = WriteFile(files, WriterPath, <<>>)
  /\ writer' = [writer EXCEPT
                  !.pc = IF writer.pc = "open_yaml" THEN "write_yaml"
                         ELSE "write_json",
                  !.left = IF writer.pc = "open_yaml" THEN writer.yaml
                           ELSE writer.json]
  /\ UNCHANGED <<last, generated, written, phase, shellVars, obs, az, kf>>

\* lines 381 and 385: the text reaches the file as the buffer is flushed, in
\* one piece or in several.
update_flush ==
  /\ writer.pc \in {"write_yaml", "write_json"}
  /\ writer.left # <<>>
  /\ \E n \in 1..Len(writer.left) :
       /\ files' = WriteFile(files, WriterPath,
                             Contents(files, WriterPath)
                               \o SubSeq(writer.left, 1, n))
       /\ writer' = [writer EXCEPT
                       !.left = SubSeq(writer.left, n + 1, Len(writer.left))]
  /\ UNCHANGED <<last, generated, written, phase, shellVars, obs, az, kf>>

\* The end of a with block: the file is closed; after the json file the call
\* returns.
update_close ==
  /\ writer.pc \in {"write_yaml", "write_json"}
  /\ writer.left = <<>>
  /\ IF writer.pc = "write_yaml"
     THEN /\ writer' = [writer EXCEPT !.pc = "open_json"]
          /\ UNCHANGED <<last, written, phase>>
     ELSE /\ writer' = Idle
          /\ written' = [written EXCEPT ![writer.keyname] =
                           [set |-> TRUE, role_info |-> writer.role_info]]
          /\ phase' = [phase EXCEPT ![writer.keyname] = "updated"]
          /\ last' = Result("update_local_metadata", writer.keyname, "ok",
                            <<>>, FALSE, <<>>)
  /\ UNCHANGED <<files, generated, shellVars, obs, az, kf>>

\* lines 570-580, called by a second process while update_local_metadata may
\* be between two of its file operations with no file open.
cleanup_appscale_files_meanwhile(keyname) ==
  /\ writer.pc \in {"idle", "open_yaml", "open_json"}
  /\ CleanupCall(keyname)
  /\ UNCHANGED <<writer, shellVars, obs, az, kf>>

----------------------------------------------------------------------------
(* AzureAgent: appscale/tools/agents/azure_agent.py.  A cloud call is named *)
(* by the function that makes it and the API it calls; any one of them may  *)
(* raise CloudError with a message of the vendor's.                         *)

DEFAULT_STORAGE_ACCT == "appscalestorage"
DEFAULT_RESOURCE_GROUP == "appscale-group"

\* The resource groups and storage accounts a subscription may hold.
GroupNames == {DEFAULT_RESOURCE_GROUP, "group1"}
AccountNames == {DEFAULT_STORAGE_ACCT, "store1"}

\* The credentials files on the local disk, and the azure_creds a user gives.
CredentialFiles == {"creds.json"}
CredentialArgs == {NoValue, "creds.json", "lost.json"}

\* What a CloudError may say.
VendorMessages == {"QuotaExceeded", "AuthorizationFailed"}

\* The arguments of an AppScale command that the agent reads: every choice of
\* resource group and storage account with a credentials file that exists,
\* and the defaults with one that is not given or does not exist.
AzureArgs ==
  {args \in [azure_creds : CredentialArgs,
             resource_group : {NoValue} \cup GroupNames,
             storage_account : {NoValue} \cup AccountNames,
             group_tag : {NoValue},
             zone : {"westus"}] :
     \/ args.azure_creds \in CredentialFiles
     \/ args.resource_group = NoValue /\ args.storage_account = NoValue}

\* bool(value) of an argument: None is false, a name is true.
Truthy(value) == value # NoValue

NoFault == [call |-> "none", message |-> "none"]

\* No parameters returned yet.
NoParams ==
  [set |-> FALSE, azure_creds |-> NoValue, resource_group |-> NoValue,
   storage_account |-> NoValue, group_tag |-> NoValue, zone |-> NoValue,
   does_exist |-> FALSE]

\* The outcome of an agent call: how it ended, the message of the exception
\* it raised, the CloudError a cloud call raised during it, and, of
\* create_resource_group, the storage accounts it listed and created.
AzResult(op, status, message, raised, listed, created) ==
  [op |-> op, status |-> status, message |-> message, raised |-> raised,
   listed |-> listed, created |-> created]

\* A subscription holding the resource groups given, each with its accounts.
Subscription(groups, accounts) ==
  [groups |-> groups, accounts |-> accounts, providers |-> {},
   resources |-> {}]

AzStart(groups, accounts) ==
  [cloud |-> Subscription(groups, accounts),
   client_secrets |-> FALSE,
   params |-> NoParams,
   last |-> AzResult("none", "ok", <<>>, NoFault, {}, {})]

AzInit == AzStart({}, [g \in GroupNames |-> {}])

\* A cloud call, and the function whose "except CloudError" encloses it
\* ("none" when no try statement does).
Call(name, caught_by) == [name |-> name, caught_by |-> caught_by]

\* lines 145-146, 562-563 and 595-596: the text each handler puts before the
\* vendor's message.
MessagePrefix(caught_by) ==
  IF caught_by = "assert_credentials_are_valid"
  THEN "Unable to authenticate using the credentials provided. Reason: "
  ELSE IF caught_by = "create_resource_group"
  THEN "Unable to create a resource group using the credentials provided: "
  ELSE "Unable to create a storage account using the credentials provided: "

\* What a cloud call that succeeds changes in the subscription: resource
\* groups, the storage accounts under them, the registered providers and the
\* network and compute resources of the deployment.
ApplyCall(cloud, name, params) ==
  LET rg == params.resource_group
  IN IF name = "create_resource_group/resource_groups.create_or_update"
     THEN [cloud EXCEPT !.groups = @ \cup {rg}]
     ELSE IF name = "create_storage_account/storage_accounts.create"
     THEN [cloud EXCEPT !.accounts[rg] = @ \cup {params.storage_account}]
     ELSE IF name = "create_resource_group/providers.register"
     THEN [cloud EXCEPT !.providers = @ \cup {"Microsoft.Storage"}]
     ELSE IF name = "configure_instance_security/providers.register.1"
     THEN [cloud EXCEPT !.providers = @ \cup {"Microsoft.Compute"}]
     ELSE IF name = "configure_instance_security/providers.register.2"
     THEN [cloud EXCEPT !.providers = @ \cup {"Microsoft.Network"}]
     ELSE IF name = "create_network_interface/virtual_networks.create_or_update"
     THEN [cloud EXCEPT !.resources = @ \cup {"virtual_network"}]
     ELSE IF name = "create_network_interface/public_ip_addresses.create_or_update"
     THEN [cloud EXCEPT !.resources = @ \cup {"public_ip"}]
     ELSE IF name = "create_network_interface/network_interfaces.create_or_update"
     THEN [cloud EXCEPT !.resources = @ \cup {"network_interface"}]
     ELSE IF name = "create_virtual_machine/virtual_machines.create_or_update"
     THEN [cloud EXCEPT !.resources = @ \cup {"virtual_machine"}]
     ELSE cloud

\* The calls of a function in order, from call i on: a call that raises
\* CloudError ends the function, with AgentConfigurationException when a
\* handler encloses the call and with the CloudError itself when none does;
\* the calls before it have taken effect.
RECURSIVE RunCalls(_, _, _, _, _)
RunCalls(cloud, calls, i, fault, params) ==
  IF i > Len(calls)
  THEN [cloud |-> cloud, status |-> "ok", message |-> <<>>, raised |-> NoFault]
  ELSE IF calls[i].name = fault.call
  THEN IF calls[i].caught_by = "none"
       THEN [cloud |-> cloud, status |-> "CloudError",
             message |-> <<fault.message>>, raised |-> fault]
       ELSE [cloud |-> cloud, status |-> "AgentConfigurationException",
             message |-> <<MessagePrefix(calls[i].caught_by), fault.message>>,
             raised |-> fault]
  ELSE RunCalls(ApplyCall(cloud, calls[i].name, params), calls, i + 1, fault,
                params)

\* No fault, or a CloudError at one of the calls given.
FaultsAt(calls) ==
  {NoFault} \cup {[call |-> calls[i].name, message |-> m] :
                    i \in DOMAIN calls, m \in VendorMessages}

\* lines 137-146: the one cloud call of assert_credentials_are_valid, inside
\* its try statement.
assert_credentials_are_valid_calls ==
  <<Call("assert_credentials_are_valid/resource_groups.list",
         "assert_credentials_are_valid")>>

\* lines 583-596: the call and the wait for its result, in one try statement.
create_storage_account_calls ==
  <<Call("create_storage_account/storage_accounts.create",
         "create_storage_account")>>

\* line 555: "A or B in C" is "A or (B in C)".
StorageAccountExists(params, stg_account_names) ==
  Truthy(params.storage_account) \/ DEFAULT_STORAGE_ACCT \in stg_account_names

\* lines 536-563: the provider registration stands before the try statement.
create_resource_group_calls(cloud, params) ==
  <<Call("create_resource_group/providers.register", "none")>>
  \o (IF ~params.does_exist
      THEN <<Call("create_resource_group/resource_groups.create_or_update",
                  "create_resource_group")>>
           \o create_storage_account_calls
      ELSE <<Call("create_resource_group/storage_accounts.list_by_resource_group",
                  "create_resource_group")>>
           \o (IF StorageAccountExists(params,
                                       cloud.accounts[params.resource_group])
               THEN <<>>
               ELSE create_storage_account_calls))

\* lines 482-509: no try statement.
create_network_interface_calls ==
  <<Call("create_network_interface/virtual_networks.create_or_update", "none"),
    Call("create_network_interface/subnets.get", "none"),
    Call("create_network_interface/public_ip_addresses.create_or_update", "none"),
    Call("create_network_interface/public_ip_addresses.get", "none"),
    Call("create_network_interface/network_interfaces.create_or_update", "none"),
    Call("create_network_interface/network_interfaces.get", "none")>>

\* lines 222-229: no try statement.
create_virtual_machine_calls ==
  <<Call("create_virtual_machine/virtual_machines.create_or_update", "none"),
    Call("create_virtual_machine/public_ip_addresses.get", "none")>>

\* lines 173-185
configure_instance_security_calls(cloud, params) ==
  create_resource_group_calls(cloud, params)
  \o <<Call("configure_instance_security/providers.register.1", "none"),
       Call("configure_instance_security/providers.register.2", "none")>>
  \o create_network_interface_calls
  \o create_virtual_machine_calls

\* lines 371-397: the parameters returned for args when the subscription
\* holds the resource groups rg_names.
ParamsFromArgs(args, rg_names) ==
  [set |-> TRUE,
   azure_creds |-> args.azure_creds,
   resource_group |-> IF ~Truthy(args.resource_group)
                      THEN DEFAULT_RESOURCE_GROUP ELSE args.resource_group,
   storage_account |-> IF ~Truthy(args.storage_account)
                       THEN DEFAULT_STORAGE_ACCT ELSE args.storage_account,
   group_tag |-> args.group_tag,
   zone |-> args.zone,
   does_exist |-> args.resource_group \in rg_names]

\* lines 335-397
get_params_from_args(args, fault) ==
  /\ az' =
       IF ~Truthy(args.azure_creds)
       THEN [az EXCEPT !.last =
               AzResult("get_params_from_args", "AgentConfigurationException",
                        <<"Please specify a JSON file location">>, NoFault,
                        {}, {})]
       ELSE IF args.azure_creds \notin CredentialFiles
       THEN [az EXCEPT !.last =
               AzResult("get_params_from_args", "AgentConfigurationException",
                        <<"Couldn't find your credentials">>, NoFault, {}, {})]
       ELSE LET r == RunCalls(az.cloud, assert_credentials_are_valid_calls, 1,
                              fault, NoParams)
            IN [az EXCEPT
                  !.client_secrets = TRUE,
                  !.params = IF r.status = "ok"
                             THEN ParamsFromArgs(args, az.cloud.groups) ELSE @,
                  !.last = AzResult("get_params_from_args", r.status,
                                    r.message, r.raised, {}, {})]
  /\ UNCHANGED <<storeVars, shellVars, obs, kf>>

\* lines 122-146, on the parameters get_params_from_args returned
assert_credentials_are_valid(fault) ==
  /\ az.params.set
  /\ LET r == RunCalls(az.cloud, assert_credentials_are_valid_calls, 1, fault,
                       az.params)
     IN az' = [az EXCEPT !.last =
                 AzResult("assert_credentials_are_valid", r.status, r.message,
                          r.raised, {}, {})]
  /\ UNCHANGED <<storeVars, shellVars, obs, kf>>

\* The storage accounts of the group of params that are in after and were not
\* in before.
CreatedAccounts(before, after, params) ==
  after.accounts[params.resource_group]
    \ before.accounts[params.resource_group]

\* lines 512-563, on the parameters get_params_from_args returned
create_resource_group(fault) ==
  /\ az.params.set
  /\ LET r == RunCalls(az.cloud,
                       create_resource_group_calls(az.cloud, az.params), 1,
                       fault, az.params)
     IN az' = [az EXCEPT
                 !.cloud = r.cloud,
                 !.last = AzResult("create_resource_group", r.status,
                                   r.message, r.raised,
                                   az.cloud.accounts[az.params.resource_group],
                                   CreatedAccounts(az.cloud, r.cloud,
                                                   az.params))]
  /\ UNCHANGED <<storeVars, shellVars, obs, kf>>

\* lines 148-185, on the parameters get_params_from_args returned
configure_instance_security(fault) ==
  /\ az.params.set
  /\ LET r == RunCalls(az.cloud,
                       configure_instance_security_calls(az.cloud, az.params),
                       1, fault, az.params)
     IN az' = [az EXCEPT
                 !.cloud = r.cloud,
                 !.last = AzResult("configure_instance_security", r.status,
                                   r.message, r.raised,
                                   az.cloud.accounts[az.params.resource_group],
                                   CreatedAccounts(az.cloud, r.cloud,
                                                   az.params))]
  /\ UNCHANGED <<storeVars, shellVars, obs, kf>>

----------------------------------------------------------------------------
(* write_key_file: lines 135-147, one system call at a time.  A mode is the *)
(* set of its permission bits.                                             *)

\* The read and write bits of owner, group and others: mode 0666.
ReadWriteBits == {"ur", "uw", "gr", "gw", "or", "ow"}

\* Mode 0600, the second argument of os.chmod on line 147.
OwnerReadWrite == {"ur", "uw"}

\* The umasks the process may run under: 022 and 077.
Umasks == {{"gw", "ow"}, {"gr", "gw", "or", "ow"}}

\* Where keys are written, and the keys written.
KeyLocations == {"dep1.key", "dep2.key"}
KeyContents == {<<"k", "1">>, <<"k", "2">>}

NoKeyFile == [exists |-> FALSE, data |-> <<>>, mode |-> {}]

NoKeyWrite == [pc |-> "idle", location |-> "none", contents |-> <<>>]

KfStart(umask) ==
  [file |-> [l \in KeyLocations |-> NoKeyFile], umask |-> umask,
   call |-> NoKeyWrite]

KfInit == KfStart({"gw", "ow"})

\* line 144 onwards: a call binds its arguments.
write_key_file(location, contents) ==
  /\ kf.call.pc = "idle"
  /\ kf' = [kf EXCEPT !.call = [pc |-> "open", location |-> location,
                                 contents |-> contents]]
  /\ UNCHANGED <<storeVars, shellVars, obs, az>>

\* open(location, 'w'): a file that exists is emptied and keeps its mode; a
\* new file is created with mode 0666 less the bits of the umask.
OpenForWriting(file, umask) ==
  IF file.exists THEN [file EXCEPT !.data = <<>>]
  ELSE [exists |-> TRUE, data |-> <<>>, mode |-> ReadWriteBits \ umask]

\* line 145
write_key_file_open ==
  /\ kf.call.pc = "open"
  /\ kf' = [kf EXCEPT
              !.file[kf.call.location] = OpenForWriting(@, kf.umask),
              !.call.pc = "write"]
  /\ UNCHANGED <<storeVars, shellVars, obs, az>>

\* line 146 and the end of the with block: the contents reach the file.
write_key_file_write ==
  /\ kf.call.pc = "write"
  /\ kf' = [kf EXCEPT !.file[kf.call.location].data = kf.call.contents,
                       !.call.pc = "chmod"]
  /\ UNCHANGED <<storeVars, shellVars, obs, az>>

\* line 147: os.chmod(location, 0600), after which the call returns.
write_key_file_chmod ==
  /\ kf.call.pc = "chmod"
  /\ kf' = [kf EXCEPT !.file[kf.call.location].mode = OwnerReadWrite,
                       !.call = NoKeyWrite]
  /\ UNCHANGED <<storeVars, shellVars, obs, az>>

----------------------------------------------------------------------------
(* The metadata store driven by one operator process, call after call *)

\* Any call, for the keynames and update_local_metadata inputs given.
StoreNext(keynames, infrastructures, role_infos) ==
  \/ \E k \in keynames, force \in BOOLEAN : ensure_appscale_isnt_running(k, force)
  \/ \E k \in keynames : generate_secret_key(k)
  \/ \E k \in keynames : get_secret_key(k)
  \/ \E k \in keynames : generate_ssl_cert(k)
  \/ \E k \in keynames, infra \in infrastructures, ri \in role_infos :
       update_local_metadata(k, infra, ri)
  \/ \E k \in keynames : get_local_nodes_info(k)
  \/ \E k \in keynames, role \in Roles : get_host_with_role(k, role)
  \/ \E k \in keynames, role \in Roles : get_host_for_role(k, role)
  \/ \E k \in keynames : get_infrastructure(k)
  \/ \E k \in keynames : get_group(k)
  \/ \E k \in keynames : cleanup_appscale_files(k)

\* Two deployments side by side, each of at most one node.
ShortRoleInfos == {ri \in RoleInfos : Len(ri) <= 1}

Init ==
  /\ StoreInit
  /\ sh = ShIdle
  /\ twin = ShIdle
  /\ obs = NoObscure
  /\ az = AzInit
  /\ kf = KfInit

Next ==
  StoreNext(Keynames, {NoValue}, ShortRoleInfos) /\ UNCHANGED <<shellVars, obs, az, kf>>

Spec == Init /\ [][Next]_vars

\* One deployment, with every roster and infrastructure.
NextRoster ==
  StoreNext({"dep1"}, InfrastructureOptions, RoleInfos)
    /\ UNCHANGED <<shellVars, obs, az, kf>>

SpecRoster == Init /\ [][NextRoster]_vars

\* The command executor alone: a run and, in step with it, its twin.
NextShell ==
  \/ \E c \in Commands, v \in BOOLEAN, n \in RetryBudgets :
       shell_call(c, v, n) /\ twin_call
  \/ shell_attempt /\ twin_step
  \/ shell_return /\ twin_step
  \/ shell_retry /\ twin_step
  \/ shell_raise /\ twin_step

SpecShell == Init /\ [][NextShell]_vars

\* The masking helper, on every string of up to MaxStrLen characters.
InitObscure ==
  /\ StoreInit
  /\ sh = ShIdle
  /\ twin = ShIdle
  /\ obs \in {[NoObscure EXCEPT !.input = str] : str \in Strings}
  /\ az = AzInit
  /\ kf = KfInit

NextObscure == obscure_str_call

SpecObscure == InitObscure /\ [][NextObscure]_vars

\* The dictionary masker, on every dictionary over DictKeys and DictValues.
InitObscureDict ==
  /\ StoreInit
  /\ sh = ShIdle
  /\ twin = ShIdle
  /\ obs \in {[NoObscure EXCEPT !.input = d] : d \in Dicts}
  /\ az = AzInit
  /\ kf = KfInit

NextObscureDict == obscure_dict_call

SpecObscureDict == InitObscureDict /\ [][NextObscureDict]_vars

\* The Azure agent, on a subscription that holds any of the resource groups
\* and storage accounts when the first call is made.
InitAzure ==
  /\ StoreInit
  /\ sh = ShIdle
  /\ twin = ShIdle
  /\ obs = NoObscure
  /\ \E groups \in SUBSET GroupNames :
       \E accounts \in [GroupNames -> SUBSET AccountNames] :
         /\ \A g \in GroupNames \ groups : accounts[g] = {}
         /\ az = AzStart(groups, accounts)
  /\ kf = KfInit

NextAzure ==
  \/ \E args \in AzureArgs :
       \E fault \in FaultsAt(assert_credentials_are_valid_calls) :
         get_params_from_args(args, fault)
  \/ \E fault \in FaultsAt(assert_credentials_are_valid_calls) :
       assert_credentials_are_valid(fault)
  \/ \E fault \in FaultsAt(create_resource_group_calls(az.cloud, az.params)) :
       create_resource_group(fault)
  \/ \E fault \in FaultsAt(configure_instance_security_calls(az.cloud,
                                                             az.params)) :
       configure_instance_security(fault)

SpecAzure == InitAzure /\ [][NextAzure]_vars

\* The key writer, under either umask, as a second process sees the files.
InitKeyFile ==
  /\ StoreInit
  /\ sh = ShIdle
  /\ twin = ShIdle
  /\ obs = NoObscure
  /\ az = AzInit
  /\ kf \in {KfStart(umask) : umask \in Umasks}

NextKeyFile ==
  \/ \E location \in KeyLocations, contents \in KeyContents :
       write_key_file(location, contents)
  \/ write_key_file_open
  \/ write_key_file_write
  \/ write_key_file_chmod

SpecKeyFile == InitKeyFile /\ [][NextKeyFile]_vars

\* One deployment written by the operator process while a second process
\* reads its files.
NextConcurrent ==
  \/ generate_secret_key("dep1") /\ UNCHANGED <<shellVars, obs, az, kf>>
  \/ \E infra \in InfrastructureOptions, ri \in ShortRoleInfos :
       update_begin("dep1", infra, ri)
  \/ update_open
  \/ update_flush
  \/ update_close
  \/ get_local_nodes_info("dep1") /\ UNCHANGED <<shellVars, obs, az, kf>>
  \/ get_infrastructure("dep1") /\ UNCHANGED <<shellVars, obs, az, kf>>
  \/ get_group("dep1") /\ UNCHANGED <<shellVars, obs, az, kf>>

SpecConcurrent == Init /\ [][NextConcurrent]_vars

\* One deployment written by the operator process while a second process
\* cleans it up.
NextCleanup ==
  \/ generate_secret_key("dep1") /\ UNCHANGED <<shellVars, obs, az, kf>>
  \/ \E infra \in InfrastructureOptions, ri \in ShortRoleInfos :
       update_begin("dep1", infra, ri)
  \/ update_open
  \/ update_flush
  \/ update_close
  \/ cleanup_appscale_files_meanwhile("dep1")

SpecCleanup == Init /\ [][NextCleanup]_vars

----------------------------------------------------------------------------
(* Properties of the metadata store *)

\* C1: ensure_appscale_isnt_running(keyname, force) fails with the
\* already-running error exactly when force is false and the locations yaml
\* of that keyname exists; with force, or with no locations record, it
\* succeeds.
C1_EnsureFailsIffLiveAndNotForced ==
  last.op = "ensure_appscale_isnt_running" =>
    /\ last.status \in {"ok", "BadConfigurationException"}
    /\ last.status = "BadConfigurationException" <=>
         (~last.flag /\ files[last.keyname]["yaml"].exists)

\* An unforced call that failed on a live deployment, beside a keyname with no
\* locations record.
C1_Witness ==
  /\ last.op = "ensure_appscale_isnt_running"
  /\ last.status = "BadConfigurationException"
  /\ \E k \in Keynames : k # last.keyname /\ ~files[k]["yaml"].exists

\* C6 (as stated): cleanup_appscale_files never reports an error, whichever
\* of its three files are already absent.
C6_CleanupNeverFails ==
  last.op = "cleanup_appscale_files" => last.status = "ok"

\* C6 (amended): cleanup_appscale_files succeeds exactly when the locations
\* yaml, the locations json and the secret file all exist, and then leaves all
\* three absent; otherwise it fails with OSError; called again directly after
\* a successful call it fails and changes no file.
C6_CleanupStrict ==
  last.op = "cleanup_appscale_files" =>
    LET pre == last.pre
        now == Present(files, last.keyname)
    IN /\ last.status \in {"ok", "OSError"}
       /\ last.status = "ok" <=> (pre[1] /\ pre[2] /\ pre[3])
       /\ last.status = "ok" => now = <<FALSE, FALSE, FALSE>>
       /\ last.flag => (last.status = "OSError" /\ now = pre)

\* A second cleanup directly after a successful one.
C6_Witness ==
  /\ last.op = "cleanup_appscale_files"
  /\ last.flag
  /\ last.pre = <<FALSE, FALSE, FALSE>>

\* C7: get_secret_key(keyname) returns exactly what the latest
\* generate_secret_key(keyname) returned, as long as the secret file has not
\* been written or removed since.
C7_SecretRoundTrip ==
  (last.op = "get_secret_key" /\ generated[last.keyname] # <<>>) =>
    (last.status = "ok" /\ last.value = generated[last.keyname])

\* A secret of SECRET_KEY_LENGTH characters read back.
C7_Witness ==
  /\ last.op = "get_secret_key"
  /\ last.status = "ok"
  /\ Len(generated[last.keyname]) = SECRET_KEY_LENGTH
  /\ Len(last.value) = SECRET_KEY_LENGTH

\* C10 (as stated): a live deployment (its locations yaml exists) has its
\* secret file, its TLS private key and its TLS certificate.
C10_LiveHasSecretAndTlsPair ==
  \A k \in Keynames :
    files[k]["yaml"].exists =>
      (files[k]["secret"].exists /\ files[k]["key_pem"].exists
         /\ files[k]["cert_pem"].exists)

\* C10 (amended): a live deployment has its secret file; the TLS private key
\* and certificate are there only if generate_ssl_cert was called, and then
\* both are.
C10_LiveHasSecret ==
  \A k \in Keynames :
    /\ files[k]["yaml"].exists => files[k]["secret"].exists
    /\ files[k]["key_pem"].exists <=> files[k]["cert_pem"].exists

\* A live deployment with its secret and its TLS pair.
C10_Witness ==
  \E k \in Keynames :
    /\ files[k]["yaml"].exists
    /\ files[k]["secret"].exists
    /\ files[k]["key_pem"].exists
    /\ files[k]["cert_pem"].exists

\* C11: the metadata files are the already-running guard over a deployment's
\* life: once update_local_metadata has succeeded for a keyname, every
\* unforced ensure_appscale_isnt_running of that keyname fails until
\* cleanup_appscale_files of it succeeds, and from then on (as before the
\* first update) every such call succeeds until update_local_metadata
\* succeeds again.
C11_GuardFollowsLifecycle ==
  (last.op = "ensure_appscale_isnt_running" /\ ~last.flag) =>
    IF phase[last.keyname] = "updated"
    THEN last.status = "BadConfigurationException"
    ELSE last.status = "ok"

\* An unforced call that succeeded on a deployment brought up and then cleaned
\* up, beside a deployment that is still up.
C11_Witness ==
  /\ last.op = "ensure_appscale_isnt_running"
  /\ ~last.flag
  /\ last.status = "ok"
  /\ phase[last.keyname] = "cleaned"
  /\ \E k \in Keynames : phase[k] = "updated"

\* C12: after a successful cleanup_appscale_files(keyname) the secret file,
\* the TLS private key and the TLS certificate of that keyname are all absent.
C12_CleanupRemovesSecretAndTlsPair ==
  (last.op = "cleanup_appscale_files" /\ last.status = "ok") =>
    /\ ~Exists(files, get_secret_key_location(last.keyname))
    /\ ~Exists(files, get_private_key_location(last.keyname))
    /\ ~Exists(files, get_certificate_location(last.keyname))

\* The locations yaml and the secret file of keyname both exist in fs.
RecordAndSecretExist(fs, keyname) ==
  /\ Exists(fs, get_locations_yaml_location(keyname))
  /\ Exists(fs, get_secret_key_location(keyname))

\* The secret field of the locations yaml is the content of the secret file.
RecordSecretMatches(fs, keyname) ==
  ReadYamlField(fs, keyname, "secret").value
    = Contents(fs, get_secret_key_location(keyname))

\* C21 (as stated): whenever the locations record and the secret file of a
\* keyname both exist, the secret stored in the record equals the content of
\* the secret file, whatever calls were made before.
C21_RecordSecretEqualsFile ==
  \A k \in Keynames :
    RecordAndSecretExist(files, k) => RecordSecretMatches(files, k)

\* C21 (amended): the secret in the locations record equals the content of
\* the secret file after every successful update_local_metadata and stays
\* equal until generate_secret_key is called for the keyname; a record that
\* differs from the file does so because of such a call, and keeps differing
\* only until the next successful update_local_metadata.
C21_RecordSecretFollowsUpdate ==
  [][\A k \in Keynames :
       RecordAndSecretExist(files', k) =>
         \/ RecordSecretMatches(files', k)
         \/ last'.op = "generate_secret_key" /\ last'.keyname = k
         \/ /\ RecordAndSecretExist(files, k)
            /\ ~RecordSecretMatches(files, k)
            /\ ~(last'.op = "update_local_metadata" /\ last'.keyname = k
                   /\ last'.status = "ok")]_vars

\* A successful update_local_metadata has left the record of one deployment
\* with the secret of its file, all of it, while the record of the other
\* deployment, whose secret was generated anew, still holds the old one.
C21_Witness ==
  /\ last.op = "update_local_metadata"
  /\ last.status = "ok"
  /\ RecordAndSecretExist(files, last.keyname)
  /\ RecordSecretMatches(files, last.keyname)
  /\ Len(ReadYamlField(files, last.keyname, "secret").value) = SECRET_KEY_LENGTH
  /\ \E k \in Keynames :
       RecordAndSecretExist(files, k) /\ ~RecordSecretMatches(files, k)


\* The first index of nodes whose jobs hold role, 0 when there is none.
FirstWithRole(nodes, role) ==
  LET hits == {i \in DOMAIN nodes : \E j \in DOMAIN nodes[i].jobs :
                                       nodes[i].jobs[j] = role}
  IN IF hits = {} THEN 0 ELSE CHOOSE i \in hits : \A h \in hits : i <= h

\* C4: get_host_with_role returns the public address of the first node of the
\* roster, in order, whose jobs contain the role, and raises (returns no
\* value) when no node has it.
C4_FirstHostWithRole ==
  (last.op = "get_host_with_role" /\ written[last.keyname].set) =>
    LET nodes == written[last.keyname].role_info
        first == FirstWithRole(nodes, last.pre)
    IN IF first = 0
       THEN last.status = "AppScaleException" /\ last.value = <<>>
       ELSE last.status = "ok" /\ last.value = nodes[first].public_ip

\* Two nodes hold the role and the first one's address is returned.
C4_Witness ==
  /\ last.op = "get_host_with_role"
  /\ last.status = "ok"
  /\ written[last.keyname].set
  /\ Len(written[last.keyname].role_info) >= 2
  /\ Cardinality({i \in DOMAIN written[last.keyname].role_info :
        last.pre \in Range(written[last.keyname].role_info[i].jobs)}) >= 2
  /\ last.value = written[last.keyname].role_info[1].public_ip

\* C8: get_local_nodes_info returns a roster equal to the role_info that
\* update_local_metadata wrote for the keyname: the same nodes in the same
\* order, with the same addresses and jobs.
C8_RosterRoundTrip ==
  (last.op = "get_local_nodes_info" /\ written[last.keyname].set) =>
    (last.status = "ok" /\ last.value = written[last.keyname].role_info)

\* A roster of two nodes read back.
C8_Witness ==
  /\ last.op = "get_local_nodes_info"
  /\ last.status = "ok"
  /\ written[last.keyname].set
  /\ Len(last.value) >= 2

\* C20: the two role lookups agree: whatever the roster and the role,
\* get_host_for_role(keyname, role) has the outcome get_host_with_role(keyname,
\* role) has on the same files -- the same address, or the same failure; in
\* particular it fails when no node holds the role and does not return None.
C20_RoleLookupsAgree ==
  last.op = "get_host_for_role" =>
    LET with == HostWithRole(files, last.keyname, last.pre)
    IN /\ last.status = with.status
       /\ last.value = with.value
       /\ ~(last.status = "ok" /\ last.value = NoValue)

----------------------------------------------------------------------------
(* Properties of shell() *)

AllFailed(exits) == \A i \in DOMAIN exits : exits[i] # 0

C3_ReturnsOutputOfSuccessfulAttempt ==
  sh.pc = "Success" =>
    /\ sh.exits[Len(sh.exits)] = 0
    /\ AllFailed(SubSeq(sh.exits, 1, Len(sh.exits) - 1))
    /\ sh.status = "ok"
    /\ sh.value = sh.stdout

\* C13: every run whose attempts each terminate reaches Success or Exhausted,
\* whatever integer the retry budget is, 0 and negative values included, and
\* makes no more attempts than the budget: a budget below 1 allows none.
C13_AttemptsBoundedByBudget ==
  Len(sh.exits) <= (IF sh.num_retries > 0 THEN sh.num_retries ELSE 0)

\* C14: the command is executed at least once before any outcome is
\* reported: no run is in Exhausted without having been in Running, which
\* records the attempt's exit code, whatever the retry budget is.
C14_ExhaustedOnlyAfterRunning ==
  sh.pc = "Exhausted" => Len(sh.exits) >= 1

\* C15: is_verbose is side-effect-only: two runs of the same command with the
\* same retry budget and the same attempt outcomes, one verbose and one not,
\* make the same number of attempts and end with the same result.
C15_VerboseIsSideEffectOnly ==
  sh.pc \in {"Success", "Exhausted"} =>
    /\ twin.pc = sh.pc
    /\ Len(twin.exits) = Len(sh.exits)
    /\ twin.status = sh.status
    /\ twin.value = sh.value

\* A verbose run that returned at its third attempt, beside its quiet twin:
\* the two differ in what they logged.
C15_Witness ==
  /\ sh.pc = "Success"
  /\ Len(sh.exits) = 3
  /\ sh.is_verbose /\ ~twin.is_verbose
  /\ twin.command = sh.command /\ twin.num_retries = sh.num_retries
  /\ twin.exits = sh.exits
  /\ sh.logged > 0 /\ twin.logged = 0

\* C24: every temporary capture file shell() opens for an attempt is closed
\* by the time shell() returns or raises, whether the attempt succeeded or
\* failed, and at no time is more than one capture file open.
C24_CaptureFilesClosed ==
  /\ sh.open <= 1
  /\ sh.pc \in {"Success", "Exhausted"} => sh.open = 0

----------------------------------------------------------------------------
(* Properties of the masking helper *)

\* C9: obscure_str(s) is s itself when s has fewer than 4 characters;
\* otherwise it has the length of s, ends with the last 4 characters of s and
\* is asterisks everywhere before them.
C9_ObscureStr ==
  obs.done =>
    LET s == obs.input
        r == obs.output
    IN IF Len(s) < 4 THEN r = s
       ELSE /\ Len(r) = Len(s)
            /\ \A i \in 1..Len(s) :
                 r[i] = IF i > Len(s) - 4 THEN s[i] ELSE "*"

\* A string of more than four characters, masked.
C9_Witness ==
  /\ obs.done
  /\ Len(obs.input) > 4
  /\ obs.output[1] = "*"

\* key[:len(prefix)] == prefix
BeginsWith(key, prefix) ==
  Len(key) >= Len(prefix) /\ SubSeq(key, 1, Len(prefix)) = prefix

\* C19: obscure_dict returns a mapping with exactly the keys of its argument
\* and leaves the argument as it was; a value is masked only if its key
\* begins with 'EC2' or 'ec2', and the value of every other key is returned
\* unchanged.
C19_ObscureDictMasksOnlyCredentials ==
  obs.done =>
    /\ DOMAIN obs.output = DOMAIN obs.input
    /\ \A key \in DOMAIN obs.input :
         (~BeginsWith(key, <<"E", "C", "2">>)
            /\ ~BeginsWith(key, <<"e", "c", "2">>))
         => obs.output[key] = obs.input[key]

----------------------------------------------------------------------------
(* Properties of the files as a concurrent reader sees them *)

\* What a read of a whole file returns: not-found, or the value parsed.
WholeRead(op, file) ==
  IF ~file.exists THEN [status |-> "IOError", value |-> <<>>]
  ELSE IF op = "get_local_nodes_info"
    THEN [status |-> "ok", value |-> json_loads(file.data).val]
  ELSE IF op = "get_infrastructure"
    THEN [status |-> "ok", value |-> yaml_safe_load(file.data).val["infrastructure"]]
  ELSE [status |-> "ok", value |-> yaml_safe_load(file.data).val["group"]]

SameOutcome(a, b) ==
  a.status = b.status /\ (a.status = "ok" => a.value = b.value)

\* C5: a read made while update_local_metadata is writing returns the whole
\* previous content, the whole new content, or not-found, and nothing else.
C5_ReaderSeesWholeFiles ==
  (writer.pc # "idle" /\ last.flag
     /\ last.op \in {"get_local_nodes_info", "get_infrastructure", "get_group"})
  =>
    LET outcome == [status |-> last.status, value |-> last.value]
        old == IF last.op = "get_local_nodes_info" THEN writer.old.json
               ELSE writer.old.yaml
        new == IF last.op = "get_local_nodes_info" THEN FileOf(writer.json)
               ELSE FileOf(writer.yaml)
    IN \/ outcome.status = "IOError"
       \/ SameOutcome(outcome, WholeRead(last.op, old))
       \/ SameOutcome(outcome, WholeRead(last.op, new))

----------------------------------------------------------------------------
(* Properties of the Azure agent *)

\* C16: every CloudError a cloud call raises during get_params_from_args,
\* assert_credentials_are_valid, create_resource_group (create_storage_account
\* included) or configure_instance_security (network and virtual machine
\* creation included) reaches the caller as an AgentConfigurationException
\* whose message ends with the vendor's message: none is swallowed and none
\* propagates unwrapped.
C16_CloudErrorsAreWrapped ==
  az.last.raised # NoFault =>
    /\ az.last.status = "AgentConfigurationException"
    /\ az.last.message[Len(az.last.message)] = az.last.raised.message

\* C17: when the resource group already exists (does_exist is true),
\* create_resource_group creates the specified storage account if it is not
\* among the accounts listed under the group, and creates none if it is.
C17_StorageAccountCreatedIffNotListed ==
  (az.last.op = "create_resource_group" /\ az.last.status = "ok"
     /\ az.params.does_exist)
  => az.last.created =
       IF az.params.storage_account \in az.last.listed THEN {}
       ELSE {az.params.storage_account}

C23_FailedCleanupDeletesNothing ==
  (last.op = "cleanup_appscale_files" /\ last.status = "OSError") =>
    \A i \in 1..3 : last.pre[i] => Present(files, last.keyname)[i]

----------------------------------------------------------------------------
(* Properties of the key writer *)

\* C22: write_key_file never leaves the key readable under permissions
\* broader than owner read/write: in every state during or after a call, a
\* key file that holds contents has mode 0600.
C22_KeyFileNeverBroaderThan0600 ==
  \A l \in KeyLocations :
    (kf.file[l].exists /\ kf.file[l].data # <<>>) =>
      kf.file[l].mode = OwnerReadWrite

====
